---- MODULE Spec2Model ----
(***************************************************************************)
(* Monkey Stars bot: the ledger kept in the Supabase store (database.py)   *)
(* and the handlers of bot.py that mutate it.                              *)
(*                                                                         *)
(* The store is a remote service shared by every request.  One step of the *)
(* model is one round trip to the store (one .execute() of database.py).   *)
(* A round trip may raise; every method of Database catches the exception  *)
(* and returns False / None / [].                                          *)
(*                                                                         *)
(* Spec: requests are served by tasks that may belong to independent       *)
(* processes sharing the store, so their round trips interleave freely.    *)
(* SeqSpec: one process.  The calls of database.py are synchronous and no  *)
(* handler awaits between its first and its last store call, so the event  *)
(* loop of one process serves the store calls of one request at a time.    *)
(*                                                                         *)
(* Amounts are fixed-point, in hundredths of a STAR (0.2 STAR = 20).       *)
(* Timestamps are seconds, as int(datetime.now().timestamp()).             *)
(*                                                                         *)
(* The store outlives the bot: the bot is constructed against a store in   *)
(* which user 1 has sent /start and has pressed "I subscribed"; user 2 is  *)
(* not registered yet.                                                     *)
(***************************************************************************)
EXTENDS Integers, Sequences, FiniteSets, Bags, TLC

\* ---------------------------------------------------------------- bounds
MaxReq == 3
MaxFail == 1
MaxTime == 3600
\* the longest duration handed to format_time: 2 h 2 min 5 s
MaxSeconds == 7325

\* ------------------------------------------------------- program constants
CLICK_REWARD == 20
CLICK_COOLDOWN == 3600
CLICK_REFERRAL_PERCENT == 10
MIN_ACTIVE_REFERRALS == 3
None == -1

Users == {1, 2}
Tasks == {1, 2}
Sponsors == {1}
TickStep == CLICK_COOLDOWN \div 2

\* "/start" alone, "/start abc" (int() raises ValueError), "/start <id>"
NoParam == [kind |-> "none", id |-> 0]
BadParam == [kind |-> "text", id |-> 0]
IntParam(n) == [kind |-> "int", id |-> n]
\* ids a referral link may carry: the users, and an id nobody has
ReferralIds == Users \cup {3}
StartParams == {NoParam, BadParam} \cup {IntParam(n) : n \in ReferralIds}

\* the <amount> of a "withdraw_<amount>" callback, after float()
WithdrawInputs == {-1500, 1500}
\* what the get_active_referrals RPC may count
ActiveCounts == {2, 3}

VARIABLES
    users,          \* table users: user_id -> row
    transactions,   \* table transactions, a bag of rows
    withdrawals,    \* table withdrawals, row i has id i
    user_sponsors,  \* table user_sponsors: <<user_id, sponsor_id>> -> is_subscribed
    now,            \* datetime.now().timestamp()
    tasks,          \* the handler invocations: position and locals of each
    started,        \* requests started so far
    fails,          \* store round trips that raised so far
    credited        \* per user: sum of the amounts update_balance reported applied

vars == <<users, transactions, withdrawals, user_sponsors, now, tasks, started,
          fails, credited>>

\* ----------------------------------------------------------- store rows
\* database.py create_user: the row sent to upsert
user_data(referrer_id) ==
    [balance |-> 0, last_click |-> None, referrer_id |-> referrer_id]

\* database.py add_transaction: the inserted row; ref stands for what the
\* description names (withdrawal id, source user), 0 when it names nothing
transaction_row(user_id, amount, type, ref) ==
    [user_id |-> user_id, amount |-> amount, type |-> type, ref |-> ref]

add_transaction(txs, user_id, amount, type, ref) ==
    txs (+) SetToBag({transaction_row(user_id, amount, type, ref)})

\* database.py create_withdrawal: the inserted row
withdrawal_row(user_id, amount) ==
    [user_id |-> user_id, amount |-> amount, status |-> "pending"]

\* database.py get_user: response.data, a list of zero or one row
get_user(user_id) ==
    IF user_id \in DOMAIN users THEN <<users[user_id]>> ELSE <<>>

\* database.py create_user: upsert(user_data, on_conflict="user_id") inserts
\* the row, or overwrites every column sent when the key exists
create_user(us, user_id, referrer_id) ==
    [u \in (DOMAIN us) \cup {user_id} |->
        IF u = user_id THEN user_data(referrer_id) ELSE us[u]]

\* database.py update_balance, second round trip: update(...).eq("user_id")
write_balance(us, user_id, new_balance) ==
    IF user_id \in DOMAIN us
    THEN [us EXCEPT ![user_id].balance = new_balance]
    ELSE us

\* update_last_click without the eq("user_id") filter
update_last_click_unfiltered(us, user_id, timestamp) ==
    [u \in DOMAIN us |-> [us[u] EXCEPT !.last_click = timestamp]]

\* database.py update_last_click
update_last_click(us, user_id, timestamp) ==
    IF user_id \in DOMAIN us
    THEN [us EXCEPT ![user_id].last_click = timestamp]
    ELSE us

\* database.py get_user_sponsors_status: one row per configured sponsor
\* with the user's is_subscribed flag
get_user_sponsors_status(user_id) ==
    [s \in Sponsors |-> user_sponsors[<<user_id, s>>]]

\* the subscription gate left open
check_subscriptions_open(sponsors_status) == TRUE

\* bot.py check_subscriptions over the rows read
check_subscriptions(sponsors_status) ==
    IF DOMAIN sponsors_status = {}
    THEN TRUE
    ELSE \A s \in DOMAIN sponsors_status : sponsors_status[s]

\* ------------------------------------------------------ pure helpers
\* cmd_start without the test of line 96
parse_referrer_keeps_self(user_id, param) ==
    IF param.kind # "int" THEN None ELSE param.id

\* bot.py cmd_start lines 92-99: the referrer taken from the message text
parse_referrer(user_id, param) ==
    IF param.kind # "int" THEN None
    ELSE IF param.id = user_id THEN None
    ELSE param.id

\* Python truthiness of an Optional[int]: None and 0 are falsy
truthy(x) == x # None /\ x # 0

\* the cooldown gate left open
cooldown_never_active(last_click, current_time) == FALSE

\* bot.py handle_click line 220
cooldown_active(last_click, current_time) ==
    truthy(last_click) /\ (current_time - last_click) < CLICK_COOLDOWN

\* bot.py handle_click line 221
remaining_time(last_click, current_time) ==
    CLICK_COOLDOWN - (current_time - last_click)

\* the commission with the percentage dropped
referral_bonus_whole(reward) == reward

\* bot.py handle_click line 234
referral_bonus(reward) == (reward * CLICK_REFERRAL_PERCENT) \div 100

\* the balance gate refusing the whole balance
insufficient_balance_or_equal(balance, amount) == balance <= amount

\* bot.py handle_withdraw line 299
insufficient_balance(balance, amount) == balance < amount

\* the referral gate one referral short
insufficient_referrals_below_two(active_ref) ==
    active_ref < MIN_ACTIVE_REFERRALS - 1

\* bot.py handle_withdraw line 305
insufficient_referrals(active_ref) == active_ref < MIN_ACTIVE_REFERRALS

\* the debit with the sign lost
withdraw_delta_credit(amount) == amount

\* bot.py handle_withdraw lines 316-317: the amount handed to update_balance
\* and to add_transaction
withdraw_delta(amount) == 0 - amount

\* a rendered duration: the numbers the text shows, None for a part the
\* text does not have; form names the pattern ("N сек", "N мин N сек",
\* "N ч N мин")
duration_text(form, hours, minutes, secs) ==
    [form |-> form, hours |-> hours, minutes |-> minutes, seconds |-> secs]

\* nothing rendered
no_text == duration_text("none", None, None, None)

\* format_time with the first branch taking 60 too
format_time_sixty_seconds(seconds) ==
    IF seconds <= 60
    THEN duration_text("sec", None, None, seconds)
    ELSE IF seconds < 3600
    THEN duration_text("min_sec", None, seconds \div 60, seconds % 60)
    ELSE duration_text("h_min", seconds \div 3600, (seconds % 3600) \div 60,
                       None)

\* bot.py format_time lines 43-54
format_time(seconds) ==
    IF seconds < 60
    THEN duration_text("sec", None, None, seconds)
    ELSE IF seconds < 3600
    THEN duration_text("min_sec", None, seconds \div 60, seconds % 60)
    ELSE duration_text("h_min", seconds \div 3600, (seconds % 3600) \div 60,
                       None)

\* ------------------------------------------------------ task bookkeeping
RECURSIVE CountRows(_, _)
\* how many rows of the bag are copies of a row of the set
CountRows(rows, bag) ==
    IF rows = {} THEN 0
    ELSE LET r == CHOOSE x \in rows : TRUE
         IN  bag[r] + CountRows(rows \ {r}, bag)

\* how many transaction rows of the kind the user has
tx_count(user_id, type) ==
    CountRows({r \in DOMAIN transactions :
                    r.user_id = user_id /\ r.type = type}, transactions)

\* how many referral_income rows name the user as their source
income_count(source) ==
    CountRows({r \in DOMAIN transactions :
                    r.type = "referral_income" /\ r.ref = source},
              transactions)

\* history of a click request: what the ledger held when the request read
\* the row of its user
ledger_before(user_id) ==
    [balances |-> [u \in DOMAIN users |-> users[u].balance],
     clicks |-> tx_count(user_id, "click"),
     rewards |-> tx_count(user_id, "reward"),
     incomes |-> income_count(user_id)]

\* the locals of a handler invocation; `shown` is the figure its answer
\* carries (remaining seconds, balance, active referrals)
idle_task ==
    [pc |-> "idle", op |-> "none", user_id |-> 0, self_ref |-> FALSE,
     amount |-> 0, user |-> <<>>, current_time |-> 0, new_balance |-> 0,
     active_ref |-> 0, withdrawal |-> 0, pre_rows |-> 0, before |-> <<>>,
     outcome |-> "none",
     shown |-> 0, text |-> no_text, failed |-> FALSE]

\* a task that can take the next update: the lowest-numbered free one does
free(p) ==
    /\ tasks[p].pc \in {"idle", "done"}
    /\ \A q \in Tasks : q < p => tasks[q].pc \notin {"idle", "done"}
    /\ started < MaxReq

\* task p moves on to record t
step(p, t) == tasks' = [tasks EXCEPT ![p] = t]

\* the handler returns: its locals die; the request, its answer, and for a
\* rewarded click the clock reading it used, stay; a remaining time is
\* shown as format_time renders it (bot.py lines 222 and 366)
finish(t, outcome, shown) ==
    [idle_task EXCEPT !.pc = "done", !.op = t.op, !.user_id = t.user_id,
        !.amount = t.amount, !.withdrawal = t.withdrawal, !.failed = t.failed,
        !.outcome = outcome, !.shown = shown,
        !.text = IF \/ outcome = "cooldown_active"
                    \/ outcome = "profile" /\ shown > 0
                 THEN format_time(shown) ELSE no_text,
        !.current_time = IF outcome = "rewarded" THEN t.current_time ELSE 0]

\* a store round trip of task t raised
raised(t) == [t EXCEPT !.failed = TRUE]

can_fail == fails < MaxFail

TypeOK ==
    /\ DOMAIN users \subseteq Users
    /\ now \in 0..(MaxTime + TickStep)
    /\ started \in 0..MaxReq
    /\ fails \in 0..MaxFail

Init ==
    /\ users = (1 :> user_data(None))
    /\ transactions = EmptyBag
    /\ withdrawals = <<>>
    /\ user_sponsors = [k \in Users \X Sponsors |-> k[1] = 1]
    /\ now = 0
    /\ tasks = [p \in Tasks |-> idle_task]
    /\ started = 0
    /\ fails = 0
    /\ credited = [u \in Users |-> 0]

\* the clock advances; it is read at bot.py lines 216 and 360, so what matters
\* is how far it has advanced when a task is about to read it
Tick ==
    /\ now + TickStep <= MaxTime
    /\ \E p \in Tasks : tasks[p].pc \in {"c_get", "p_refs"}
    /\ now' = now + TickStep
    /\ UNCHANGED <<users, transactions, withdrawals, user_sponsors, tasks,
                   started, fails, credited>>

\* ------------------------------------------------------------ cmd_start
\* bot.py cmd_start lines 84-102: the referrer is parsed and
\* db.create_user(user_id, username, referrer_id) upserts the row
StartCmd(p) ==
    /\ free(p)
    /\ \E u \in Users, param \in StartParams :
        /\ users' = create_user(users, u, parse_referrer(u, param))
        /\ credited' = [credited EXCEPT ![u] = 0]
        /\ step(p, [idle_task EXCEPT !.pc = "s_subs", !.op = "start",
                        !.user_id = u, !.self_ref = (param = IntParam(u))])
    /\ started' = started + 1
    /\ UNCHANGED <<transactions, withdrawals, user_sponsors, now, fails>>

\* the upsert raises: create_user logs and returns False, cmd_start goes on
StartCmdFails(p) ==
    /\ free(p)
    /\ can_fail
    /\ \E u \in Users :
        step(p, raised([idle_task EXCEPT !.pc = "s_subs", !.op = "start",
                                         !.user_id = u]))
    /\ started' = started + 1
    /\ fails' = fails + 1
    /\ UNCHANGED <<users, transactions, withdrawals, user_sponsors, now,
                   credited>>

\* bot.py lines 105-110: check_subscriptions, then the sponsors message or
\* the main menu
StartCheckSubscriptions(p) ==
    LET t == tasks[p]
    IN  /\ t.pc = "s_subs"
        /\ step(p, finish(t,
                IF check_subscriptions(get_user_sponsors_status(t.user_id))
                THEN "main_menu" ELSE "sponsors_message", 0))
        /\ UNCHANGED <<users, transactions, withdrawals, user_sponsors, now,
                       started, fails, credited>>

\* ------------------------------------------- handle_check_subscriptions
\* bot.py lines 165-177: every sponsor read by get_sponsors is upserted as
\* subscribed for the user
HandleCheckSubscriptions(u) ==
    /\ \E s \in Sponsors : ~user_sponsors[<<u, s>>]
    /\ user_sponsors' = [k \in Users \X Sponsors |->
                            IF k[1] = u THEN TRUE ELSE user_sponsors[k]]
    /\ UNCHANGED <<users, transactions, withdrawals, now, tasks, started,
                   fails, credited>>

\* --------------------------------------------------------- update_balance
\* the three calls of db.update_balance: bot.py lines 227, 235, 316; at
\* "x_bal" the call is about to read the row, at "x_bal_w" about to write it
ub_read_sites == {"c_bal", "r_bal", "w_bal"}
ub_write_sites == {"c_bal_w", "r_bal_w", "w_bal_w"}

\* every update of a click request aimed at the clicking user
ub_user_self(t) == t.user_id

ub_user(t) ==
    IF t.pc \in {"r_bal", "r_bal_w"} THEN t.user[1].referrer_id ELSE t.user_id

ub_amount(t) ==
    CASE t.pc \in {"c_bal", "c_bal_w"} -> CLICK_REWARD
      [] t.pc \in {"r_bal", "r_bal_w"} -> referral_bonus(CLICK_REWARD)
      [] t.pc \in {"w_bal", "w_bal_w"} -> withdraw_delta(t.amount)

ub_write_site(t) ==
    CASE t.pc = "c_bal" -> "c_bal_w"
      [] t.pc = "r_bal" -> "r_bal_w"
      [] t.pc = "w_bal" -> "w_bal_w"

\* where the handler goes on after update_balance returned
ub_return(t) ==
    CASE t.pc \in {"c_bal", "c_bal_w"} -> "c_last"
      [] t.pc \in {"r_bal", "r_bal_w"} -> "r_tx"
      [] t.pc \in {"w_bal", "w_bal_w"} -> "w_tx"

\* database.py line 64
new_balance(balance, amount) == balance + amount

\* database.py lines 60-64: get_user, return False without a row, else
\* new_balance = user["balance"] + amount
UpdateBalanceRead(p) ==
    LET t == tasks[p]
        row == get_user(ub_user(t))
    IN  /\ t.pc \in ub_read_sites
        /\ IF row = <<>>
           THEN step(p, [t EXCEPT !.pc = ub_return(t)])
           ELSE step(p, [t EXCEPT !.pc = ub_write_site(t),
                    !.new_balance = new_balance(row[1].balance, ub_amount(t))])
        /\ UNCHANGED <<users, transactions, withdrawals, user_sponsors, now,
                       started, fails, credited>>

\* database.py lines 32-34 under line 60: get_user raises and returns None
UpdateBalanceReadFails(p) ==
    LET t == tasks[p]
    IN  /\ t.pc \in ub_read_sites
        /\ can_fail
        /\ fails' = fails + 1
        /\ step(p, raised([t EXCEPT !.pc = ub_return(t)]))
        /\ UNCHANGED <<users, transactions, withdrawals, user_sponsors, now,
                       started, credited>>

\* database.py lines 66-71: update({"balance": new_balance}).eq("user_id")
UpdateBalanceWrite(p) ==
    LET t == tasks[p]
    IN  /\ t.pc \in ub_write_sites
        /\ users' = write_balance(users, ub_user(t), t.new_balance)
        /\ credited' = [credited EXCEPT ![ub_user(t)] = @ + ub_amount(t)]
        /\ step(p, [t EXCEPT !.pc = ub_return(t), !.new_balance = 0])
        /\ UNCHANGED <<transactions, withdrawals, user_sponsors, now, started,
                       fails>>

\* database.py lines 72-74: the update raises
UpdateBalanceWriteFails(p) ==
    LET t == tasks[p]
    IN  /\ t.pc \in ub_write_sites
        /\ can_fail
        /\ fails' = fails + 1
        /\ step(p, raised([t EXCEPT !.pc = ub_return(t), !.new_balance = 0]))
        /\ UNCHANGED <<users, transactions, withdrawals, user_sponsors, now,
                       started, credited>>

\* ----------------------------------------------------------- handle_click
\* bot.py lines 205-209: the subscription gate
ClickStart(p) ==
    /\ free(p)
    /\ \E u \in Users :
        LET t == [idle_task EXCEPT !.op = "click", !.user_id = u]
        IN  IF check_subscriptions(get_user_sponsors_status(u))
            THEN step(p, [t EXCEPT !.pc = "c_get"])
            ELSE step(p, finish(t, "subscription_incomplete", 0))
    /\ started' = started + 1
    /\ UNCHANGED <<users, transactions, withdrawals, user_sponsors, now,
                   fails, credited>>

\* database.py lines 124-126: the RPC raises, [] is returned and
\* check_subscriptions takes it for "no sponsors"
ClickStartFails(p) ==
    /\ free(p)
    /\ can_fail
    /\ \E u \in Users :
        step(p, raised([idle_task EXCEPT !.op = "click", !.user_id = u,
                                         !.pc = "c_get"]))
    /\ started' = started + 1
    /\ fails' = fails + 1
    /\ UNCHANGED <<users, transactions, withdrawals, user_sponsors, now,
                   credited>>

\* bot.py lines 211-223: get_user, the clock is read, the cooldown gate
ClickGetUser(p) ==
    LET t == tasks[p]
        row == get_user(t.user_id)
    IN  /\ t.pc = "c_get"
        /\ IF row = <<>>
           THEN step(p, finish(t, "user_not_found", 0))
           ELSE IF cooldown_active(row[1].last_click, now)
           THEN step(p, finish(t, "cooldown_active",
                               remaining_time(row[1].last_click, now)))
           ELSE step(p, [t EXCEPT !.user = row, !.current_time = now,
                    !.before = ledger_before(t.user_id),
                    !.pc = "c_bal"])
        /\ UNCHANGED <<users, transactions, withdrawals, user_sponsors, now,
                       started, fails, credited>>

\* get_user raises and returns None: bot.py lines 212-214
ClickGetUserFails(p) ==
    LET t == tasks[p]
    IN  /\ t.pc = "c_get"
        /\ can_fail
        /\ fails' = fails + 1
        /\ step(p, finish(raised(t), "user_not_found", 0))
        /\ UNCHANGED <<users, transactions, withdrawals, user_sponsors, now,
                       started, credited>>

\* bot.py line 228: db.update_last_click(user_id, current_time)
ClickUpdateLastClick(p) ==
    LET t == tasks[p]
    IN  /\ t.pc = "c_last"
        /\ users' = update_last_click(users, t.user_id, t.current_time)
        /\ step(p, [t EXCEPT !.pc = "c_tx"])
        /\ UNCHANGED <<transactions, withdrawals, user_sponsors, now, started,
                       fails, credited>>

ClickUpdateLastClickFails(p) ==
    LET t == tasks[p]
    IN  /\ t.pc = "c_last"
        /\ can_fail
        /\ fails' = fails + 1
        /\ step(p, raised([t EXCEPT !.pc = "c_tx"]))
        /\ UNCHANGED <<users, transactions, withdrawals, user_sponsors, now,
                       started, credited>>

\* bot.py lines 232-233: the referral part runs when referrer_id is truthy
after_click_tx(t) ==
    IF truthy(t.user[1].referrer_id) THEN "r_bal" ELSE "c_reget"

\* bot.py line 229: db.add_transaction(user_id, reward, "click", ...)
ClickAddTransaction(p) ==
    LET t == tasks[p]
    IN  /\ t.pc = "c_tx"
        /\ transactions' =
             add_transaction(transactions, t.user_id, CLICK_REWARD, "click", 0)
        /\ step(p, [t EXCEPT !.pc = after_click_tx(t)])
        /\ UNCHANGED <<users, withdrawals, user_sponsors, now, started, fails,
                       credited>>

ClickAddTransactionFails(p) ==
    LET t == tasks[p]
    IN  /\ t.pc = "c_tx"
        /\ can_fail
        /\ fails' = fails + 1
        /\ step(p, raised([t EXCEPT !.pc = after_click_tx(t)]))
        /\ UNCHANGED <<users, transactions, withdrawals, user_sponsors, now,
                       started, credited>>

\* bot.py lines 236-241: the referral_income row of the referrer
ReferralAddTransaction(p) ==
    LET t == tasks[p]
    IN  /\ t.pc = "r_tx"
        /\ transactions' =
             add_transaction(transactions, t.user[1].referrer_id,
                             referral_bonus(CLICK_REWARD), "referral_income",
                             t.user_id)
        /\ step(p, [t EXCEPT !.pc = "c_reget"])
        /\ UNCHANGED <<users, withdrawals, user_sponsors, now, started, fails,
                       credited>>

ReferralAddTransactionFails(p) ==
    LET t == tasks[p]
    IN  /\ t.pc = "r_tx"
        /\ can_fail
        /\ fails' = fails + 1
        /\ step(p, raised([t EXCEPT !.pc = "c_reget"]))
        /\ UNCHANGED <<users, transactions, withdrawals, user_sponsors, now,
                       started, credited>>

\* bot.py lines 244-253: the row is read again and its balance is shown
ClickShow(p) ==
    LET t == tasks[p]
        row == get_user(t.user_id)
    IN  /\ t.pc = "c_reget"
        /\ IF row = <<>>
           THEN step(p, finish(t, "fault", 0))
           ELSE step(p, finish(t, "rewarded", row[1].balance))
        /\ UNCHANGED <<users, transactions, withdrawals, user_sponsors, now,
                       started, fails, credited>>

\* get_user returns None and user['balance'] raises TypeError in the handler
ClickShowFails(p) ==
    LET t == tasks[p]
    IN  /\ t.pc = "c_reget"
        /\ can_fail
        /\ fails' = fails + 1
        /\ step(p, finish(raised(t), "fault", 0))
        /\ UNCHANGED <<users, transactions, withdrawals, user_sponsors, now,
                       started, credited>>

\* -------------------------------------------------------- handle_withdraw
\* bot.py lines 285-301: the amount is parsed, get_user, the balance gate
WithdrawStart(p) ==
    /\ free(p)
    /\ \E u \in Users, amount \in WithdrawInputs :
        LET t == [idle_task EXCEPT !.op = "withdraw", !.user_id = u,
                        !.amount = amount, !.pre_rows = Len(withdrawals)]
            row == get_user(u)
        IN  IF row = <<>>
            THEN step(p, finish(t, "user_not_found", 0))
            ELSE IF insufficient_balance(row[1].balance, amount)
            THEN step(p, finish(t, "insufficient_balance", row[1].balance))
            ELSE step(p, [t EXCEPT !.user = row, !.pc = "w_refs"])
    /\ started' = started + 1
    /\ UNCHANGED <<users, transactions, withdrawals, user_sponsors, now,
                   fails, credited>>

\* get_user raises and returns None: bot.py lines 294-296
WithdrawStartFails(p) ==
    /\ free(p)
    /\ can_fail
    /\ \E u \in Users, amount \in WithdrawInputs :
        step(p, finish(raised([idle_task EXCEPT !.op = "withdraw",
                !.user_id = u, !.amount = amount]), "user_not_found", 0))
    /\ started' = started + 1
    /\ fails' = fails + 1
    /\ UNCHANGED <<users, transactions, withdrawals, user_sponsors, now,
                   credited>>

\* bot.py lines 304-307: the active referrals counted by the
\* get_active_referrals RPC, against the threshold
WithdrawReferrals(p) ==
    LET t == tasks[p]
    IN  /\ t.pc = "w_refs"
        /\ \E active_ref \in ActiveCounts :
            IF insufficient_referrals(active_ref)
            THEN step(p, finish(t, "insufficient_referrals", active_ref))
            ELSE step(p, [t EXCEPT !.active_ref = active_ref,
                                   !.pc = "w_create"])
        /\ UNCHANGED <<users, transactions, withdrawals, user_sponsors, now,
                       started, fails, credited>>

\* database.py lines 147-149: get_user_referrals raises and returns (0, 0)
WithdrawReferralsFails(p) ==
    LET t == tasks[p]
    IN  /\ t.pc = "w_refs"
        /\ can_fail
        /\ fails' = fails + 1
        /\ step(p, finish(raised(t), "insufficient_referrals", 0))
        /\ UNCHANGED <<users, transactions, withdrawals, user_sponsors, now,
                       started, credited>>

\* bot.py line 310: db.create_withdrawal(user_id, amount)
WithdrawCreate(p) ==
    LET t == tasks[p]
    IN  /\ t.pc = "w_create"
        /\ withdrawals' = Append(withdrawals, withdrawal_row(t.user_id, t.amount))
        /\ step(p, [t EXCEPT !.withdrawal = Len(withdrawals) + 1,
                             !.active_ref = 0, !.pc = "w_bal"])
        /\ UNCHANGED <<users, transactions, user_sponsors, now, started, fails,
                       credited>>

\* bot.py lines 311-313: the insert raised, create_withdrawal returned None
WithdrawCreateFails(p) ==
    LET t == tasks[p]
    IN  /\ t.pc = "w_create"
        /\ can_fail
        /\ fails' = fails + 1
        /\ step(p, finish(raised(t), "withdrawal_error", 0))
        /\ UNCHANGED <<users, transactions, withdrawals, user_sponsors, now,
                       started, credited>>

\* bot.py lines 317-327: db.add_transaction(user_id, -amount, "withdrawal",
\* ...) and the message of success
WithdrawAddTransaction(p) ==
    LET t == tasks[p]
    IN  /\ t.pc = "w_tx"
        /\ transactions' =
             add_transaction(transactions, t.user_id, withdraw_delta(t.amount),
                             "withdrawal", t.withdrawal)
        /\ step(p, finish(t, "withdrawal_created", t.amount))
        /\ UNCHANGED <<users, withdrawals, user_sponsors, now, started, fails,
                       credited>>

WithdrawAddTransactionFails(p) ==
    LET t == tasks[p]
    IN  /\ t.pc = "w_tx"
        /\ can_fail
        /\ fails' = fails + 1
        /\ step(p, finish(raised(t), "withdrawal_created", t.amount))
        /\ UNCHANGED <<users, transactions, withdrawals, user_sponsors, now,
                       started, credited>>

\* --------------------------------------------------------- handle_profile
\* bot.py lines 345-349: the subscription gate
ProfileStart(p) ==
    /\ free(p)
    /\ \E u \in Users :
        LET t == [idle_task EXCEPT !.op = "profile", !.user_id = u]
        IN  IF check_subscriptions(get_user_sponsors_status(u))
            THEN step(p, [t EXCEPT !.pc = "p_get"])
            ELSE step(p, finish(t, "subscription_incomplete", 0))
    /\ started' = started + 1
    /\ UNCHANGED <<users, transactions, withdrawals, user_sponsors, now,
                   fails, credited>>

\* database.py lines 124-126: the RPC raises, [] is returned and
\* check_subscriptions takes it for "no sponsors"
ProfileStartFails(p) ==
    /\ free(p)
    /\ can_fail
    /\ \E u \in Users :
        step(p, raised([idle_task EXCEPT !.op = "profile", !.user_id = u,
                                         !.pc = "p_get"]))
    /\ started' = started + 1
    /\ fails' = fails + 1
    /\ UNCHANGED <<users, transactions, withdrawals, user_sponsors, now,
                   credited>>

\* bot.py lines 351-354: get_user
ProfileGetUser(p) ==
    LET t == tasks[p]
        row == get_user(t.user_id)
    IN  /\ t.pc = "p_get"
        /\ IF row = <<>>
           THEN step(p, finish(t, "user_not_found", 0))
           ELSE step(p, [t EXCEPT !.user = row, !.pc = "p_refs"])
        /\ UNCHANGED <<users, transactions, withdrawals, user_sponsors, now,
                       started, fails, credited>>

\* get_user raises and returns None
ProfileGetUserFails(p) ==
    LET t == tasks[p]
    IN  /\ t.pc = "p_get"
        /\ can_fail
        /\ fails' = fails + 1
        /\ step(p, finish(raised(t), "user_not_found", 0))
        /\ UNCHANGED <<users, transactions, withdrawals, user_sponsors, now,
                       started, credited>>

\* bot.py lines 362-369: the seconds until the next click, 0 for "now"
next_click(last_click, current_time) ==
    IF cooldown_active(last_click, current_time)
    THEN remaining_time(last_click, current_time)
    ELSE 0

\* bot.py lines 356-387: get_user_referrals, the clock is read, the
\* profile text is composed and shown
ProfileShow(p) ==
    LET t == tasks[p]
    IN  /\ t.pc = "p_refs"
        /\ step(p, finish(t, "profile", next_click(t.user[1].last_click, now)))
        /\ UNCHANGED <<users, transactions, withdrawals, user_sponsors, now,
                       started, fails, credited>>

\* database.py lines 147-149: get_user_referrals raises and returns (0, 0),
\* which the profile shows
ProfileShowFails(p) ==
    LET t == tasks[p]
    IN  /\ t.pc = "p_refs"
        /\ can_fail
        /\ fails' = fails + 1
        /\ step(p, finish(raised(t), "profile",
                           next_click(t.user[1].last_click, now)))
        /\ UNCHANGED <<users, transactions, withdrawals, user_sponsors, now,
                       started, credited>>

\* ----------------------------------------------------------- the system
\* one step of the handler invocation p
TaskNext(p) ==
    \/ StartCmd(p)
    \/ StartCmdFails(p)
    \/ StartCheckSubscriptions(p)
    \/ UpdateBalanceRead(p)
    \/ UpdateBalanceReadFails(p)
    \/ UpdateBalanceWrite(p)
    \/ UpdateBalanceWriteFails(p)
    \/ ClickStart(p)
    \/ ClickStartFails(p)
    \/ ClickGetUser(p)
    \/ ClickGetUserFails(p)
    \/ ClickUpdateLastClick(p)
    \/ ClickUpdateLastClickFails(p)
    \/ ClickAddTransaction(p)
    \/ ClickAddTransactionFails(p)
    \/ ReferralAddTransaction(p)
    \/ ReferralAddTransactionFails(p)
    \/ ClickShow(p)
    \/ ClickShowFails(p)
    \/ WithdrawStart(p)
    \/ WithdrawStartFails(p)
    \/ WithdrawReferrals(p)
    \/ WithdrawReferralsFails(p)
    \/ WithdrawCreate(p)
    \/ WithdrawCreateFails(p)
    \/ WithdrawAddTransaction(p)
    \/ WithdrawAddTransactionFails(p)
    \/ ProfileStart(p)
    \/ ProfileStartFails(p)
    \/ ProfileGetUser(p)
    \/ ProfileGetUserFails(p)
    \/ ProfileShow(p)
    \/ ProfileShowFails(p)

Next ==
    \/ Tick
    \/ \E u \in Users : HandleCheckSubscriptions(u)
    \/ \E p \in Tasks : TaskNext(p)

\* independent processes on one store
Spec == Init /\ [][Next]_vars

SeqNext ==
    \/ Tick
    \/ \E u \in Users : HandleCheckSubscriptions(u)
    \/ TaskNext(1)

\* one process: one request at a time
SeqSpec == Init /\ [][SeqNext]_vars

\* ------------------------------------------------------------ format_time
\* format_time on its own: a handler holds any duration of 0..MaxSeconds
\* seconds and renders it
FormatInit ==
    /\ users = (1 :> user_data(None))
    /\ transactions = EmptyBag
    /\ withdrawals = <<>>
    /\ user_sponsors = [k \in Users \X Sponsors |-> k[1] = 1]
    /\ now = 0
    /\ \E seconds \in 0..MaxSeconds :
        tasks = [p \in Tasks |->
                    IF p = 1
                    THEN [idle_task EXCEPT !.pc = "f_time", !.op = "format",
                                           !.shown = seconds]
                    ELSE idle_task]
    /\ started = 0
    /\ fails = 0
    /\ credited = [u \in Users |-> 0]

\* bot.py line 222: format_time(remaining)
FormatTime(p) ==
    LET t == tasks[p]
    IN  /\ t.pc = "f_time"
        /\ step(p, [t EXCEPT !.pc = "done", !.outcome = "formatted",
                             !.text = format_time(t.shown)])
        /\ UNCHANGED <<users, transactions, withdrawals, user_sponsors, now,
                       started, fails, credited>>

FormatNext == \E p \in Tasks : FormatTime(p)

FormatSpec == FormatInit /\ [][FormatNext]_vars

\* ------------------------------------------------------------ properties
RECURSIVE SumRows(_, _)
\* the sum of the amounts of the rows of the set, each as often as the bag
\* holds it
SumRows(rows, bag) ==
    IF rows = {} THEN 0
    ELSE LET r == CHOOSE x \in rows : TRUE
         IN  r.amount * bag[r] + SumRows(rows \ {r}, bag)

\* the sum of the amounts of the transaction rows of user u
TxSum(u) ==
    SumRows({r \in DOMAIN transactions : r.user_id = u}, transactions)

\* no request is being served
Quiescent == \A p \in Tasks : tasks[p].pc \in {"idle", "done"}

\* task p has answered a request of kind op
Done(p, op) == tasks[p].pc = "done" /\ tasks[p].op = op

\* the step in which task p answers its request
Answers(p) == tasks[p].pc # "done" /\ tasks'[p].pc = "done"

\* C1: whenever no request is in flight, every user's balance equals the sum
\* of the amounts of that user's transaction rows.
C1_Conservation ==
    Quiescent => \A u \in DOMAIN users : users[u].balance = TxSum(u)

\* task p has answered a click with the reward, none of its store calls
\* raised, and its clock reading is not 0
RewardedCleanly(p) ==
    /\ Done(p, "click")
    /\ tasks[p].outcome = "rewarded"
    /\ ~tasks[p].failed
    /\ tasks[p].current_time # 0

\* C2: two click requests of one user whose clock readings are less than
\* CLICK_COOLDOWN apart are never both rewarded, whatever the interleaving of
\* their store calls (stated for requests in which no store call raised and
\* for clock readings other than 0, so that only the interleaving is left).
C2_NoDoubleReward ==
    \A p, q \in Tasks :
        ( /\ p # q
          /\ RewardedCleanly(p) /\ RewardedCleanly(q)
          /\ tasks[p].user_id = tasks[q].user_id )
        => \/ tasks[p].current_time - tasks[q].current_time >= CLICK_COOLDOWN
           \/ tasks[q].current_time - tasks[p].current_time >= CLICK_COOLDOWN

\* C3: no user's balance is ever below 0.
C3_NoNegativeBalance ==
    \A u \in DOMAIN users : users[u].balance >= 0

\* the step in which task p answers a withdrawal request for which it has
\* created a withdrawal row
AnswersWithRow(p) ==
    /\ Answers(p)
    /\ tasks[p].op = "withdraw"
    /\ tasks[p].withdrawal # 0

\* C4: when a withdrawal request that created a withdrawal row is answered,
\* the balance has been debited by the amount and the matching 'withdrawal'
\* transaction exists, also when a store call of the request raised: the
\* three effects come together.
C4_WithdrawalAtomic ==
    [][\A p \in Tasks : AnswersWithRow(p) =>
        LET t == tasks[p]
        IN  /\ users'[t.user_id].balance = t.user[1].balance - t.amount
            /\ BagIn(transaction_row(t.user_id, 0 - t.amount, "withdrawal",
                                     t.withdrawal), transactions')]_vars

\* C5: a user's balance is the sum of the amounts of the balance updates
\* applied to it (since the row was last written whole), whatever the
\* interleaving of the updates.
C5_NoLostUpdate ==
    \A u \in DOMAIN users : users[u].balance = credited[u]

\* the step in which task p upserts the row of an existing user u
Reregisters(p, u) ==
    /\ tasks[p].pc \in {"idle", "done"}
    /\ tasks'[p].pc = "s_subs"
    /\ ~tasks'[p].failed
    /\ tasks'[p].user_id = u
    /\ u \in DOMAIN users

\* C6: registering an existing user again with the same referrer leaves the
\* balance, the last click and the referrer of the row as they were.
C6_IdempotentRegistration ==
    [][\A p \in Tasks, u \in Users :
        (Reregisters(p, u) /\ users'[u].referrer_id = users[u].referrer_id)
        => users'[u] = users[u]]_vars

\* C7: the referrer of an existing row never changes.
C7_ReferrerFirstWriteWins ==
    [][\A u \in DOMAIN users :
        u \in DOMAIN users' /\ users'[u].referrer_id = users[u].referrer_id]_vars

\* the step in which task p registers its user with the user's own id as
\* the referral parameter
RegistersSelfReferred(p) ==
    /\ tasks[p].pc \in {"idle", "done"}
    /\ tasks'[p].pc = "s_subs"
    /\ tasks'[p].self_ref
    /\ ~tasks'[p].failed

\* C8: no row has its own id as referrer, and a registration whose referral
\* parameter is the user's own id stores the row without a referrer.
C8_SelfReferralNormalized ==
    /\ [](\A u \in DOMAIN users : users[u].referrer_id # u)
    /\ [][\A p \in Tasks : RegistersSelfReferred(p)
            => users'[tasks'[p].user_id].referrer_id = None]_vars

\* a self-referred registration has just stored its row
C8_Witness ==
    \E p \in Tasks :
        /\ tasks[p].pc = "s_subs" /\ tasks[p].self_ref /\ ~tasks[p].failed
        /\ tasks[p].user_id \in DOMAIN users
        /\ users[tasks[p].user_id].referrer_id = None

\* the step in which task p reads the row of its user and applies the
\* cooldown gate to it
AppliesGate(p) ==
    /\ tasks[p].pc = "c_get"
    /\ tasks'[p].pc # "c_get"
    /\ tasks'[p].outcome # "user_not_found"

\* C9: a click is denied iff the last click read is present and less than
\* CLICK_COOLDOWN before the clock reading, and then with
\* remaining = CLICK_COOLDOWN - (now - last).
C9_CooldownGate ==
    [][\A p \in Tasks : AppliesGate(p) =>
        LET last == users[tasks[p].user_id].last_click
            denied == tasks'[p].outcome = "cooldown_active"
        IN  /\ denied <=> (last # None /\ now - last < CLICK_COOLDOWN)
            /\ denied => tasks'[p].shown = CLICK_COOLDOWN - (now - last)]_vars

\* the withdrawal request answered by task p was not eligible: the user did
\* not exist, or had less than the amount, or had less than
\* MIN_ACTIVE_REFERRALS active referrals
NotEligible(p) ==
    LET t == tasks[p]
    IN  \/ t.outcome = "user_not_found" /\ t.user_id \notin DOMAIN users
        \/ t.outcome = "insufficient_balance" /\ t.shown < t.amount
        \/ t.outcome = "insufficient_referrals" /\ t.shown < MIN_ACTIVE_REFERRALS

\* C10: a withdrawal request of an existing user with balance >= amount and
\* at least MIN_ACTIVE_REFERRALS active referrals, none of whose store calls
\* raises, succeeds; when it is answered the balance is the balance read
\* minus the amount, exactly one withdrawal row was added, pending and of
\* that amount, and exactly one 'withdrawal' transaction, of -amount, was
\* added for the user.
C10_WithdrawalEffects ==
    /\ [](\A p \in Tasks : (Done(p, "withdraw") /\ ~tasks[p].failed) =>
            (tasks[p].outcome = "withdrawal_created" \/ NotEligible(p)))
    /\ [][\A p \in Tasks :
            (Answers(p) /\ tasks'[p].outcome = "withdrawal_created"
                        /\ ~tasks'[p].failed) =>
            LET t == tasks[p]
                IsNew(r) == /\ r.user_id = t.user_id /\ r.type = "withdrawal"
                            /\ r.ref > t.pre_rows
                new == {r \in DOMAIN transactions' : IsNew(r)}
            IN  /\ users'[t.user_id].balance = t.user[1].balance - t.amount
                /\ Len(withdrawals') = t.pre_rows + 1
                /\ withdrawals'[Len(withdrawals')] =
                     [user_id |-> t.user_id, amount |-> t.amount,
                      status |-> "pending"]
                /\ CountRows(new, transactions') = 1
                /\ \A r \in new : r.amount = 0 - t.amount]_vars

\* a withdrawal of a positive amount has succeeded
C10_Witness ==
    \E p \in Tasks :
        /\ Done(p, "withdraw")
        /\ ~tasks[p].failed
        /\ tasks[p].amount > 0
        /\ tasks[p].outcome = "withdrawal_created"

\* the step in which task p gets the referral counts of its user from the
\* store and applies the referral gate
AppliesReferralGate(p) ==
    /\ tasks[p].pc = "w_refs"
    /\ tasks'[p].pc # "w_refs"
    /\ ~tasks'[p].failed

\* the active count that step was given
active_read(p) ==
    IF tasks'[p].pc = "done" THEN tasks'[p].shown ELSE tasks'[p].active_ref

\* C11: a withdrawal request that reaches the referral gate with an active
\* count below MIN_ACTIVE_REFERRALS is answered insufficient-referrals with
\* that count, and no step of a request so answered changes a balance, the
\* transaction log or the withdrawal rows.
C11_ReferralGate ==
    /\ [][\A p \in Tasks : AppliesReferralGate(p) =>
            (active_read(p) < MIN_ACTIVE_REFERRALS =>
                /\ tasks'[p].pc = "done"
                /\ tasks'[p].outcome = "insufficient_referrals"
                /\ tasks'[p].shown = active_read(p))]_vars
    /\ [][\A p \in Tasks :
            ( /\ tasks[p] # tasks'[p]
              /\ tasks'[p].op = "withdraw"
              /\ tasks'[p].pc \in {"w_refs", "done"}
              /\ tasks'[p].pc = "done"
                    => tasks'[p].outcome = "insufficient_referrals" )
            => UNCHANGED <<users, transactions, withdrawals>>]_vars

\* a request of a user with balance and 2 active referrals was rejected
C11_Witness ==
    \E p \in Tasks :
        /\ Done(p, "withdraw")
        /\ tasks[p].outcome = "insufficient_referrals"
        /\ ~tasks[p].failed
        /\ tasks[p].shown = 2
        /\ tasks[p].amount > 0

\* the step in which task p answers a click with the reward, no store call
\* of the request having raised
AnswersRewarded(p) ==
    /\ Answers(p)
    /\ tasks[p].op = "click"
    /\ tasks'[p].outcome = "rewarded"
    /\ ~tasks'[p].failed

\* what a rewarded click of a user has done when it is answered, the
\* user's own transaction being logged under the kind given:
\* with an existing referrer, the user is credited CLICK_REWARD and the
\* referrer the commission, one transaction of that kind and of
\* CLICK_REWARD is new for the user and one referral_income of the
\* commission is new for the referrer; with no referrer, no other balance
\* changes and no referral_income is new
CommissionEffects(p, kind) ==
    LET t == tasks[p]
        B == t.user_id
        A == t.user[1].referrer_id
        bonus == (CLICK_REWARD * CLICK_REFERRAL_PERCENT) \div 100
        logged == IF kind = "click" THEN t.before.clicks ELSE t.before.rewards
    IN  /\ users'[B].balance = t.before.balances[B] + CLICK_REWARD
        /\ tx_count(B, kind)' = logged + 1
        /\ BagIn(transaction_row(B, CLICK_REWARD, kind, 0), transactions')
        /\ A \in DOMAIN t.before.balances =>
              /\ users'[A].balance = t.before.balances[A] + bonus
              /\ income_count(B)' = t.before.incomes + 1
              /\ BagIn(transaction_row(A, bonus, "referral_income", B),
                       transactions')
        /\ A = None =>
              /\ \A u \in DOMAIN t.before.balances \ {B} :
                    users'[u].balance = t.before.balances[u]
              /\ income_count(B)' = t.before.incomes

AllSubscribed(u) == \A s \in Sponsors : user_sponsors[<<u, s>>]

\* the step in which task p takes a click and evaluates
\* check_subscriptions for its user
ChecksSubscriptions(p) ==
    /\ tasks[p].pc \in {"idle", "done"}
    /\ tasks'[p].pc \in {"c_get", "done"}
    /\ tasks'[p].op = "click"
    /\ tasks' # tasks

\* C13: check_subscriptions lets a request through iff every configured
\* sponsor is flagged subscribed for the user (or none is configured); a
\* user whose status cannot be read is treated as not subscribed.
C13_SubscriptionCompleteness ==
    [][\A p \in Tasks : ChecksSubscriptions(p) =>
        LET passed == tasks'[p].outcome # "subscription_incomplete"
        IN  passed <=> (Sponsors = {} \/ AllSubscribed(tasks'[p].user_id))]_vars

\* a step of a profile request of task p
ProfileStep(p) == tasks'[p] # tasks[p] /\ tasks'[p].op = "profile"

\* handle_profile writes nothing
ProfileReadOnly ==
    \A p \in Tasks : ProfileStep(p) =>
        UNCHANGED <<users, transactions, withdrawals, user_sponsors>>

DeniedClickStep(p) ==
    /\ tasks'[p] # tasks[p]
    /\ tasks'[p].op = "click"
    /\ \/ tasks'[p].pc = "c_get"
       \/ tasks'[p].pc = "done" /\ tasks'[p].outcome = "cooldown_active"

\* C15: a click that reads a last click (other than 0) less than
\* CLICK_COOLDOWN before the clock reading is answered cooldown-active in
\* the step that read it, and no step of a request so answered changes a
\* balance, a last-click timestamp, the transaction log or a withdrawal.
C15_DeniedClickNoMutation ==
    [][\A p \in Tasks :
        /\ DeniedClickStep(p) =>
                UNCHANGED <<users, transactions, withdrawals, credited>>
        /\ ( /\ AppliesGate(p)
             /\ users[tasks[p].user_id].last_click \notin {None, 0}
             /\ now - users[tasks[p].user_id].last_click < CLICK_COOLDOWN )
           => (tasks'[p].pc = "done" /\ tasks'[p].outcome = "cooldown_active")
      ]_vars

\* a click inside the cooldown has been denied
C15_Witness ==
    \E p \in Tasks :
        /\ Done(p, "click")
        /\ tasks[p].outcome = "cooldown_active"
        /\ tasks[p].shown > 0
        /\ users[tasks[p].user_id].balance = CLICK_REWARD

\* the step in which task p takes a withdrawal request, reads the row of
\* the user and applies the balance gate to it
AppliesBalanceGate(p) ==
    /\ tasks[p].pc \in {"idle", "done"}
    /\ tasks'[p] # tasks[p]
    /\ tasks'[p].op = "withdraw"
    /\ ~tasks'[p].failed
    /\ tasks'[p].user_id \in DOMAIN users

\* C16: a withdrawal request for more than the balance read is answered
\* insufficient-balance with that balance and changes no balance, no
\* transaction and no withdrawal row; a request for the balance or less is
\* not rejected by this gate.
C16_BalanceGate ==
    [][\A p \in Tasks : AppliesBalanceGate(p) =>
        LET t == tasks'[p]
            balance == users[t.user_id].balance
        IN  IF t.amount > balance
            THEN /\ t.pc = "done"
                 /\ t.outcome = "insufficient_balance"
                 /\ t.shown = balance
                 /\ UNCHANGED <<users, transactions, withdrawals>>
            ELSE t.pc = "w_refs"]_vars

\* a request for more than the balance has been rejected
C16_Witness ==
    \E p \in Tasks :
        /\ Done(p, "withdraw")
        /\ tasks[p].outcome = "insufficient_balance"
        /\ ~tasks[p].failed
        /\ tasks[p].amount > tasks[p].shown
        /\ tasks[p].shown > 0
        /\ users[tasks[p].user_id].balance = tasks[p].shown

\* the step in which task p answers a click request that went past the
\* cooldown gate
AnswersPastGate(p) ==
    /\ Answers(p)
    /\ tasks[p].op = "click"
    /\ tasks[p].pc = "c_reget"

\* C17: when a click request that went past the cooldown gate is answered,
\* also after a store call of it raised, its primary effects (balance
\* + CLICK_REWARD, one new 'click' transaction, last click = the clock
\* reading) are all present or all absent.
C17_ClickAllOrNothing ==
    [][\A p \in Tasks : AnswersPastGate(p) =>
        LET t == tasks[p]
            B == t.user_id
        IN  \/ /\ users'[B].balance = t.before.balances[B] + CLICK_REWARD
               /\ tx_count(B, "click")' = t.before.clicks + 1
               /\ users'[B].last_click = t.current_time
            \/ /\ users'[B].balance = t.before.balances[B]
               /\ tx_count(B, "click")' = t.before.clicks
               /\ users'[B].last_click = t.user[1].last_click]_vars

\* a step of the commission part of the click request of task p
\* (bot.py lines 235-241)
CommissionStep(p) ==
    /\ tasks[p].pc \in {"r_bal", "r_bal_w", "r_tx"}
    /\ tasks'[p] # tasks[p]

\* the primary effects of the click request task p is about to answer
PrimaryEffectsKept(p) ==
    LET t == tasks[p]
        B == t.user_id
    IN  /\ users'[B].balance = t.before.balances[B] + CLICK_REWARD
        /\ tx_count(B, "click")' = t.before.clicks + 1
        /\ users'[B].last_click = t.current_time

\* C18: no step of the commission part of a click, whether it succeeds,
\* finds no referrer row or raises, changes the row or the 'click'
\* transactions of the clicking user or ends the request; the request then
\* reads the row again and reports the reward; and a click of a user whose
\* referrer row is missing, no store call raising, is answered as
\* rewarded with its three primary effects in place.
C18_CommissionIsolated ==
    [][\A p \in Tasks :
        /\ CommissionStep(p) =>
            LET B == tasks[p].user_id
            IN  /\ users'[B] = users[B]
                /\ tx_count(B, "click")' = tx_count(B, "click")
                /\ tasks'[p].pc \in {"r_bal_w", "r_tx", "c_reget"}
        /\ (AnswersPastGate(p) /\ fails' = fails)
                => (tasks'[p].outcome = "rewarded"
                    /\ tasks'[p].shown = users[tasks[p].user_id].balance)
        /\ ( /\ AnswersPastGate(p)
             /\ ~tasks'[p].failed
             /\ truthy(tasks[p].user[1].referrer_id)
             /\ tasks[p].user[1].referrer_id \notin DOMAIN users )
           => (tasks'[p].outcome = "rewarded" /\ PrimaryEffectsKept(p))
      ]_vars

\* a click of a user whose referrer row is missing has been rewarded
C18_Witness ==
    \E p \in Tasks :
        /\ Done(p, "click")
        /\ tasks[p].outcome = "rewarded"
        /\ ~tasks[p].failed
        /\ LET B == tasks[p].user_id
           IN  /\ truthy(users[B].referrer_id)
               /\ users[B].referrer_id \notin DOMAIN users
               /\ users[B].balance = CLICK_REWARD
               /\ users[B].last_click = tasks[p].current_time

\* C19: the referrer of every row, when set, is the id of a row of the
\* store; a registration naming a user that does not exist as referrer does
\* not store that referrer.
C19_ReferrerExists ==
    \A u \in DOMAIN users :
        users[u].referrer_id # None => users[u].referrer_id \in DOMAIN users

\* C20: every withdrawal row has a strictly positive amount and the status
\* 'pending', whatever amount the callback data carried, and no step
\* changes a row that exists.
C20_WithdrawalRowsPositive ==
    /\ [](\A i \in 1..Len(withdrawals) :
            withdrawals[i].amount > 0 /\ withdrawals[i].status = "pending")
    /\ [][\A i \in 1..Len(withdrawals) :
            i <= Len(withdrawals') /\ withdrawals'[i] = withdrawals[i]]_vars

\* the results a request may end with; "withdrawal_error" is the answer of
\* handle_withdraw to a store that could not create the row
EnumeratedOutcomes ==
    {"rewarded", "cooldown_active", "withdrawal_created",
     "insufficient_balance", "insufficient_referrals", "user_not_found",
     "subscription_incomplete", "withdrawal_error"}

\* C21: every click and every withdrawal request that has ended, also one
\* in which a store call raised, has ended with one of the enumerated
\* outcomes: none has ended in an unhandled fault.
C21_RequestsComplete ==
    \A p \in Tasks :
        (tasks[p].pc = "done" /\ tasks[p].op \in {"click", "withdraw"})
            => tasks[p].outcome \in EnumeratedOutcomes

\* C22: for every duration of s >= 0 seconds, format_time shows seconds
\* only when s < 60, s div 60 minutes and s mod 60 seconds when
\* 60 <= s < 3600, and s div 3600 hours and (s mod 3600) div 60 minutes when
\* s >= 3600.
C22_DurationRendering ==
    \A p \in Tasks : (tasks[p].pc = "done" /\ tasks[p].op = "format") =>
        LET s == tasks[p].shown
            text == tasks[p].text
        IN  /\ s >= 0
            /\ s < 60 =>
                  /\ text.form = "sec" /\ text.seconds = s
                  /\ text.minutes = None /\ text.hours = None
            /\ (60 <= s /\ s < 3600) =>
                  /\ text.form = "min_sec"
                  /\ text.minutes = s \div 60 /\ text.seconds = s % 60
                  /\ text.hours = None
            /\ s >= 3600 =>
                  /\ text.form = "h_min"
                  /\ text.hours = s \div 3600
                  /\ text.minutes = (s % 3600) \div 60
                  /\ text.seconds = None

\* 2 h 1 min 5 s have been rendered as 2 hours 1 minute
C22_Witness ==
    \E p \in Tasks :
        /\ tasks[p].pc = "done" /\ tasks[p].op = "format"
        /\ tasks[p].shown = 7265
        /\ tasks[p].text = duration_text("h_min", 2, 1, None)

\* a step of a click request of task p
ClickStep(p) == tasks'[p] # tasks[p] /\ tasks'[p].op = "click"

\* the users a click request of task p may touch: its user and, once the
\* row is read, the referrer the row names
ClickFrame(p) ==
    {tasks'[p].user_id} \cup
        (IF tasks[p].user = <<>> THEN {} ELSE {tasks[p].user[1].referrer_id})

\* C23: a step of a click request of user U changes no withdrawal row and
\* no sponsor-status row, adds and removes no user, changes no referrer,
\* changes the last click of U at most and the balance of U and of U's
\* referrer at most, and appends at most one transaction, for U or for
\* U's referrer.
C23_ClickFrame ==
    [][\A p \in Tasks : ClickStep(p) =>
        LET U == tasks'[p].user_id
        IN  /\ UNCHANGED <<withdrawals, user_sponsors>>
            /\ DOMAIN users' = DOMAIN users
            /\ \A u \in DOMAIN users :
                /\ users'[u].referrer_id = users[u].referrer_id
                /\ u # U => users'[u].last_click = users[u].last_click
                /\ u \notin ClickFrame(p)
                        => users'[u].balance = users[u].balance
            /\ \/ transactions' = transactions
               \/ \E r \in DOMAIN transactions' :
                    /\ r.user_id \in ClickFrame(p)
                    /\ transactions' = transactions (+) SetToBag({r})]_vars

\* a click has been rewarded while the store holds a user who is neither
\* the clicking user nor that user's referrer, and that user's row is as
\* it was created
C23_Witness ==
    \E p \in Tasks :
        /\ Done(p, "click")
        /\ tasks[p].outcome = "rewarded"
        /\ LET U == tasks[p].user_id
           IN  /\ users[U].balance = CLICK_REWARD
               /\ \E u \in DOMAIN users \ {U, users[U].referrer_id} :
                    users[u].balance = 0 /\ users[u].last_click = None

\* C24: the referral_income transactions that name a user as their source
\* are never more than the 'click' transactions of that user, and a
\* referral_income transaction is appended only by a click request that
\* went past the cooldown gate, never by a denied or rejected request.
C24_CommissionsFollowRewards ==
    /\ [](\A B \in Users : income_count(B) <= tx_count(B, "click"))
    /\ [][\A B \in Users : income_count(B)' # income_count(B) =>
            \E p \in Tasks :
                /\ tasks[p].op = "click" /\ tasks[p].user_id = B
                /\ tasks[p].pc = "r_tx" /\ tasks'[p].pc = "c_reget"]_vars
====
